---- MODULE Spec2Model ----
(***************************************************************************)
(* Model of the two command-line tools of the analysis-app services:       *)
(*   server/services/midas_depth.py         (depth-map tool)               *)
(*   server/services/openclip_embeddings.py (embedding tool)               *)
(* Library calls (image decode, model forward pass, model download) are    *)
(* opaque primitives whose outcome is a nondeterministic choice.           *)
(***************************************************************************)
EXTENDS Integers, Sequences, FiniteSets, TLC

VARIABLES
    \* ---- depth tool (midas_depth.py) ----
    installed,    \* packages importable at process start
    args,         \* parsed command line: [input, output, batch]
    dirEntries,   \* names found in the directory <<imgs>>
    pc,           \* position of main()
    generator,    \* "none" | "loaded"  (the MiDaSDepthGenerator instance)
    loads,        \* number of times the real model was loaded
    calls,        \* inputs handed to the single-image operation, in order
    queue,        \* image_files not yet processed by process_batch
    results,      \* the list `results` of process_batch
    result,       \* the variable `result` of main
    exc,          \* message of the exception travelling to main's handler
    madeDirs,     \* directories created by os.makedirs
    saved,        \* files written: path -> pixels
    stdout,       \* what was printed to standard output, in order
    exitCode,     \* process exit status ("running" until the process ends)
    \* ---- embedding tool (openclip_embeddings.py) ----
    pilInstalled, \* PIL importable
    openclip,     \* open_clip and torch importable (OPENCLIP_AVAILABLE)
    argv,         \* sys.argv[1:]
    epc,          \* position of the embedding script
    fallback,     \* OpenCLIPEmbedder.fallback: "unset" | "True" | "False"
    rng,          \* state of the process-wide numpy generator
    eresult,      \* the variable `result` of main
    elog,         \* results returned by generate_embedding: <<content, result>>
    estdout,      \* what was printed to standard output
    eexit,        \* exit status
    \* ---- normalisation step of generate_depth_map ----
    raw,          \* raw model output raster (depth_map)
    norm          \* depth_uint8 (empty before the step ran)

depthVars == <<installed, args, dirEntries, pc, generator, loads, calls, queue,
               results, result, exc, madeDirs, saved, stdout, exitCode>>
embedVars == <<pilInstalled, openclip, argv, epc, fallback, rng, eresult, elog,
               estdout, eexit>>
normVars  == <<raw, norm>>
vars == <<depthVars, embedVars, normVars>>

None == "None"
\* `result` before it is assigned
NoResult == [unset |-> TRUE]
\* --output absent (None) or empty: both are false in `args.output or ...`
NoOutput == <<>>

(***************************************************************************)
(* Paths.  A path string is a sequence of components; a component is a     *)
(* name split as Path.stem / Path.suffix split it, with an optional        *)
(* "depth_" prefix.  Dot is the component "."; the empty sequence is the   *)
(* empty string "" (and, for a Path object, the current directory).        *)
(***************************************************************************)
Name(stem, ext) == [pre |-> "", stem |-> stem, ext |-> ext]
Dot == Name(".", "")
DepthName(c) == [pre |-> "depth_", stem |-> c.stem, ext |-> ".png"]

\* pathlib normalisation: Path("./x") is Path("x")
RECURSIVE PathOf(_)
PathOf(s) ==
    IF s = <<>> THEN <<>>
    ELSE IF Head(s) = Dot THEN PathOf(Tail(s))
    ELSE <<Head(s)>> \o PathOf(Tail(s))

Dirname(s) == IF s = <<>> THEN <<>> ELSE SubSeq(s, 1, Len(s) - 1)
Parent(p) == Dirname(PathOf(p))
Last(s) == s[Len(s)]
Suffix(c) == c.ext

ExtLower ==
    [e \in {".png", ".PNG", ".Png", ".jpg", ".JPG", ".jpeg", ".JPEG", ".bmp",
            ".tiff", ".TIFF", ".txt", ".gif", ".tif", ""} |->
        CASE e \in {".png", ".PNG", ".Png"} -> ".png"
          [] e \in {".jpg", ".JPG"} -> ".jpg"
          [] e \in {".jpeg", ".JPEG"} -> ".jpeg"
          [] e \in {".tiff", ".TIFF"} -> ".tiff"
          [] OTHER -> e]
Lower(e) == ExtLower[e]

image_extensions == {".png", ".jpg", ".jpeg", ".bmp", ".tiff"}

(***************************************************************************)
(* The file system the depth tool runs in: the working directory holds     *)
(* chart.png (a valid image), broken.png (not decodable) and the           *)
(* directory imgs, whose entries are dirEntries.                           *)
(***************************************************************************)
Imgs == <<Name("imgs", "")>>
Chart == <<Name("chart", ".png")>>
Broken == <<Name("broken", ".png")>>
Nope == <<Name("nope", "")>>

DirCandidates ==
    {Name("a", ".png"), Name("b", ".PNG"), Name("a", ".jpeg"),
     Name("notes", ".txt"), Name("d", ".gif")}
\* entries whose bytes do not decode as an image
Undecodable == {Name("b", ".PNG"), Name("notes", ".txt")}

MaxDirEntries == 3

InitFiles == {Chart, Broken} \cup {Imgs \o <<e>> : e \in dirEntries}
InitDirs == {<<>>, Imgs}
Dirs == InitDirs \cup madeDirs
Files == InitFiles \cup DOMAIN saved
Exists(p) == PathOf(p) \in Dirs \cup Files
\* cv2.imread returns an image (not None)
CanImread(p) ==
    \/ PathOf(p) \in DOMAIN saved
    \/ PathOf(p) = Chart
    \/ \E e \in dirEntries \ Undecodable : PathOf(p) = Imgs \o <<e>>

Prefixes(p) == {SubSeq(p, 1, n) : n \in 0..Len(p)}
\* os.makedirs(d, exist_ok=True): "" raises, as does a component that is a file
MakedirsOk(d) == d # <<>> /\ Prefixes(PathOf(d)) \cap Files = {}
MakedirsNew(d) == Prefixes(PathOf(d)) \ Dirs

(***************************************************************************)
(* generate_depth_map, lines 84-93: rescale the raw raster to 0..255.      *)
(* Raster values are integers; the quotient is exact and the cast to       *)
(* uint8 truncates it and keeps the low eight bits.                        *)
(***************************************************************************)
RECURSIVE SeqMin(_)
SeqMin(d) ==
    IF Len(d) = 1 THEN d[1]
    ELSE LET m == SeqMin(Tail(d)) IN IF d[1] < m THEN d[1] ELSE m
RECURSIVE SeqMax(_)
SeqMax(d) ==
    IF Len(d) = 1 THEN d[1]
    ELSE LET m == SeqMax(Tail(d)) IN IF d[1] > m THEN d[1] ELSE m

AsUint8(v) == v % 256

\* a slip: the constant case keeps the raw raster instead of zeros
DepthUint8KeepsRaw(d) ==
    LET depth_min == SeqMin(d)
        depth_max == SeqMax(d)
    IN  IF depth_max > depth_min
        THEN [i \in 1..Len(d) |->
                AsUint8(((d[i] - depth_min) * 255) \div (depth_max - depth_min))]
        ELSE [i \in 1..Len(d) |-> AsUint8(d[i] * 255)]

DepthUint8(d) ==
    LET depth_min == SeqMin(d)
        depth_max == SeqMax(d)
    IN  IF depth_max > depth_min
        THEN [i \in 1..Len(d) |->
                AsUint8(((d[i] - depth_min) * 255) \div (depth_max - depth_min))]
        ELSE [i \in 1..Len(d) |-> AsUint8(0 * 255)]

\* raw rasters the model pass may produce in the depth-tool runs
SampleRasters == {<<3, 3>>, <<1, 4, 2>>}

(***************************************************************************)
(* Results                                                                 *)
(***************************************************************************)
Err(msg, cause) == [error |-> msg, cause |-> cause]
IsSuccess(r) == "success" \in DOMAIN r /\ r.success = TRUE
IsError(r) == "error" \in DOMAIN r

Json(doc) == [kind |-> "json", doc |-> doc]
Text(line) == [kind |-> "text", doc |-> line]

(***************************************************************************)
(* MiDaSDepthGenerator.generate_depth_map(input_path, output_path).        *)
(* ok: the transform and the forward pass raise nothing; d: the raw        *)
(* raster.  Yields the returned dict, the directories made and the file    *)
(* written (as a function path -> pixels, empty when nothing is written).  *)
(***************************************************************************)
GenerateDepthMap(input_path, output_path, ok, d) ==
    IF ~CanImread(input_path)
    THEN [res |-> Err("Could not load image", "imread"), mk |-> {}, sv |-> <<>>]
    ELSE IF ~ok
    THEN [res |-> Err("Depth map generation failed", "model"), mk |-> {}, sv |-> <<>>]
    ELSE IF ~MakedirsOk(Dirname(output_path))
    THEN [res |-> Err("Depth map generation failed", "makedirs"),
          mk |-> {}, sv |-> <<>>]
    ELSE IF PathOf(output_path) \in Dirs \cup MakedirsNew(Dirname(output_path))
    THEN [res |-> Err("Depth map generation failed", "save"),
          mk |-> MakedirsNew(Dirname(output_path)), sv |-> <<>>]
    ELSE [res |-> [success |-> TRUE, input |-> input_path, output |-> output_path,
                   depth_range |-> <<SeqMin(d), SeqMax(d)>>,
                   model |-> "MiDaS DPT-Hybrid"],
          mk |-> MakedirsNew(Dirname(output_path)),
          sv |-> [p \in {PathOf(output_path)} |-> DepthUint8(d)]]

(***************************************************************************)
(* create_fallback_depth_map(input_path, output_path).  cv2.imwrite raises *)
(* for a name without an image extension and returns False (ignored by     *)
(* the caller) when the destination cannot be written.                     *)
(***************************************************************************)
CreateFallbackDepthMap(input_path, output_path) ==
    IF ~({"cv2", "PIL"} \subseteq installed)
    THEN [res |-> Err("Fallback depth generation failed", "import"),
          mk |-> {}, sv |-> <<>>]
    ELSE IF ~CanImread(input_path)
    THEN [res |-> Err("Could not load image", "imread"), mk |-> {}, sv |-> <<>>]
    ELSE IF ~MakedirsOk(Dirname(output_path))
    THEN [res |-> Err("Fallback depth generation failed", "makedirs"),
          mk |-> {}, sv |-> <<>>]
    ELSE IF Lower(Suffix(Last(output_path))) \notin image_extensions
    THEN [res |-> Err("Fallback depth generation failed", "imwrite"),
          mk |-> MakedirsNew(Dirname(output_path)), sv |-> <<>>]
    ELSE [res |-> [success |-> TRUE, input |-> input_path, output |-> output_path,
                   model |-> "Fallback Edge-based Depth Simulation"],
          mk |-> MakedirsNew(Dirname(output_path)),
          sv |-> IF PathOf(output_path) \in Dirs \cup MakedirsNew(Dirname(output_path))
                 THEN <<>>
                 ELSE [p \in {PathOf(output_path)} |-> "blurred inverted edges"]]

Merge(fs, sv) == [p \in DOMAIN fs \cup DOMAIN sv |-> IF p \in DOMAIN sv THEN sv[p] ELSE fs[p]]

(***************************************************************************)
(* Depth tool: main() of midas_depth.py                                    *)
(***************************************************************************)
AllDeps == {"torch", "cv2", "PIL", "torchvision"}
DEPENDENCIES_AVAILABLE == AllDeps \subseteq installed

Depthmaps == Name("depthmaps", "")

InputChoices == {Chart, Imgs, Nope, Broken}
OutputChoices ==
    {NoOutput, <<Name("depth", ".png")>>, <<Dot, Name("depth", ".png")>>,
     <<Name("out", "")>>, <<Name("out", ""), Name("depth", ".png")>>, <<Dot>>}
InstalledChoices == {AllDeps, AllDeps \ {"torch"}, AllDeps \ {"cv2"}, {}}

IdleDepth ==
    /\ installed = {} /\ args = [input |-> <<>>, output |-> <<>>, batch |-> FALSE]
    /\ dirEntries = {} /\ pc = "idle"
    /\ generator = "none" /\ loads = 0 /\ calls = <<>> /\ queue = <<>>
    /\ results = <<>> /\ result = NoResult /\ exc = None /\ madeDirs = {}
    /\ saved = <<>> /\ stdout = <<>> /\ exitCode = "running"

InitDepth ==
    /\ installed \in InstalledChoices
    /\ args \in [input : InputChoices, output : OutputChoices, batch : BOOLEAN]
    /\ dirEntries \in {S \in SUBSET DirCandidates : Cardinality(S) <= MaxDirEntries}
    /\ pc = "main"
    /\ generator = "none" /\ loads = 0 /\ calls = <<>> /\ queue = <<>>
    /\ results = <<>> /\ result = NoResult /\ exc = None /\ madeDirs = {}
    /\ saved = <<>> /\ stdout = <<>> /\ exitCode = "running"

\* MiDaSDepthGenerator.__init__ raising instead of loading is swallowed
ConstructSwallowsFailure ==
    /\ pc = "main" /\ DEPENDENCIES_AVAILABLE
    /\ loads' = loads + 1
    /\ \E loaded \in BOOLEAN :
         IF loaded
         THEN /\ generator' = "loaded"
              /\ stdout' = stdout \o <<Text("Using device"), Text("model loaded")>>
         ELSE /\ generator' = "none"
              /\ stdout' = Append(stdout, Text("Using device"))
    /\ pc' = "dispatch"
    /\ UNCHANGED <<installed, args, dirEntries, calls, queue, results, result,
                   exc, madeDirs, saved, exitCode>>

\* main line 200 with MiDaSDepthGenerator.__init__
Construct ==
    /\ pc = "main" /\ DEPENDENCIES_AVAILABLE
    /\ loads' = loads + 1
    /\ \E loaded \in BOOLEAN :
         IF loaded
         THEN /\ generator' = "loaded"
              /\ stdout' = stdout \o <<Text("Using device"), Text("model loaded")>>
              /\ pc' = "dispatch"
              /\ exc' = exc
         ELSE /\ generator' = "none"
              /\ stdout' = Append(stdout, Text("Using device"))
              /\ pc' = "raised"
              /\ exc' = "Failed to load MiDaS model"
    /\ UNCHANGED <<installed, args, dirEntries, calls, queue, results, result,
                   madeDirs, saved, exitCode>>

\* main lines 208-213: the destination of a single image
SingleOutputPath ==
    IF args.output # NoOutput THEN args.output
    ELSE Parent(args.input) \o <<Depthmaps, DepthName(Last(PathOf(args.input)))>>

\* main lines 207-215 with generate_depth_map
Single ==
    /\ pc = "dispatch" /\ ~args.batch
    /\ \E ok \in BOOLEAN, d \in SampleRasters :
         LET r == GenerateDepthMap(args.input, SingleOutputPath, ok, d) IN
           /\ result' = r.res
           /\ madeDirs' = madeDirs \cup r.mk
           /\ saved' = Merge(saved, r.sv)
    /\ calls' = Append(calls, args.input)
    /\ pc' = "print"
    /\ UNCHANGED <<installed, args, dirEntries, generator, loads, queue, results,
                   exc, stdout, exitCode>>

\* Path.iterdir: the names directly inside directory p
DirList(p) ==
    {Last(f) : f \in {g \in Files \cup Dirs : g # <<>> /\ Dirname(g) = PathOf(p)}}

\* a slip: the suffix is compared without lower-casing it
ImageFilesCaseSensitive(p) == {f \in DirList(p) : Suffix(f) \in image_extensions}

\* process_batch lines 129-131
ImageFiles(p) == {f \in DirList(p) : Lower(Suffix(f)) \in image_extensions}

Orders(S) == {s \in [1..Cardinality(S) -> S] : \A i, j \in DOMAIN s : s[i] = s[j] => i = j}

\* main line 204
BatchOutputDir ==
    IF args.output # NoOutput THEN args.output ELSE Dirname(args.input) \o <<Depthmaps>>

\* a slip: the output directory is made before the input is looked at
BatchStartMakesOutputDir ==
    /\ pc = "dispatch" /\ args.batch
    /\ madeDirs' = madeDirs \cup (Prefixes(PathOf(BatchOutputDir)) \ Dirs)
    /\ IF ~Exists(args.input)
       THEN /\ result' = Err("Input directory does not exist", "input")
            /\ pc' = "print"
            /\ UNCHANGED <<queue, exc>>
       ELSE IF PathOf(args.input) \notin Dirs
       THEN /\ exc' = "NotADirectoryError"
            /\ pc' = "raised"
            /\ UNCHANGED <<queue, result>>
       ELSE IF ImageFiles(args.input) = {}
       THEN /\ result' = Err("No image files found in input directory", "input")
            /\ pc' = "print"
            /\ UNCHANGED <<queue, exc>>
       ELSE /\ queue' \in Orders(ImageFiles(args.input))
            /\ pc' = "batch"
            /\ UNCHANGED <<result, exc>>
    /\ UNCHANGED <<installed, args, dirEntries, generator, loads, calls, results,
                   saved, stdout, exitCode>>

\* main lines 202-205 with process_batch lines 122-136
BatchStart ==
    /\ pc = "dispatch" /\ args.batch
    /\ IF ~Exists(args.input)
       THEN /\ result' = Err("Input directory does not exist", "input")
            /\ pc' = "print"
            /\ UNCHANGED <<queue, exc>>
       ELSE IF PathOf(args.input) \notin Dirs
       THEN /\ exc' = "NotADirectoryError"
            /\ pc' = "raised"
            /\ UNCHANGED <<queue, result>>
       ELSE IF ImageFiles(args.input) = {}
       THEN /\ result' = Err("No image files found in input directory", "input")
            /\ pc' = "print"
            /\ UNCHANGED <<queue, exc>>
       ELSE /\ queue' \in Orders(ImageFiles(args.input))
            /\ pc' = "batch"
            /\ UNCHANGED <<result, exc>>
    /\ UNCHANGED <<installed, args, dirEntries, generator, loads, calls, results,
                   madeDirs, saved, stdout, exitCode>>

\* process_batch lines 138-147: one turn of the loop
BatchStep ==
    /\ pc = "batch" /\ queue # <<>>
    /\ LET img_file == Head(queue)
           input_path == PathOf(args.input) \o <<img_file>>
           output_file == PathOf(BatchOutputDir) \o <<DepthName(img_file)>>
       IN  /\ \E ok \in BOOLEAN, d \in SampleRasters :
                LET r == GenerateDepthMap(input_path, output_file, ok, d) IN
                  /\ results' = Append(results, [file |-> img_file, result |-> r.res])
                  /\ madeDirs' = madeDirs \cup r.mk
                  /\ saved' = Merge(saved, r.sv)
           /\ calls' = Append(calls, input_path)
    /\ queue' = Tail(queue)
    /\ UNCHANGED <<installed, args, dirEntries, pc, generator, loads, result, exc,
                   stdout, exitCode>>

SuccessCount(rs) == Cardinality({i \in DOMAIN rs : IsSuccess(rs[i].result)})

\* process_batch lines 149-153
BatchFinish ==
    /\ pc = "batch" /\ queue = <<>>
    /\ result' = [batch_results |-> results,
                  total_processed |-> Len(results),
                  success_count |-> SuccessCount(results)]
    /\ pc' = "print"
    /\ UNCHANGED <<installed, args, dirEntries, generator, loads, calls, queue,
                   results, exc, madeDirs, saved, stdout, exitCode>>

\* main lines 218-219
FallbackBatch ==
    /\ pc = "main" /\ ~DEPENDENCIES_AVAILABLE /\ args.batch
    /\ result' = Err("Batch mode not supported in fallback mode", "batch")
    /\ pc' = "print"
    /\ UNCHANGED <<installed, args, dirEntries, generator, loads, calls, queue,
                   results, exc, madeDirs, saved, stdout, exitCode>>

\* main lines 220-222 with create_fallback_depth_map
FallbackSingle ==
    /\ pc = "main" /\ ~DEPENDENCIES_AVAILABLE /\ ~args.batch
    /\ LET r == CreateFallbackDepthMap(args.input, SingleOutputPath) IN
         /\ result' = r.res
         /\ madeDirs' = madeDirs \cup r.mk
         /\ saved' = Merge(saved, r.sv)
    /\ calls' = Append(calls, args.input)
    /\ pc' = "print"
    /\ UNCHANGED <<installed, args, dirEntries, generator, loads, queue, results,
                   exc, stdout, exitCode>>

\* main line 224, then the process ends normally
PrintResult ==
    /\ pc = "print"
    /\ stdout' = Append(stdout, Json(result))
    /\ exitCode' = "0"
    /\ pc' = "exit"
    /\ UNCHANGED <<installed, args, dirEntries, generator, loads, calls, queue,
                   results, result, exc, madeDirs, saved>>

\* main lines 226-229
MainExcept ==
    /\ pc = "raised"
    /\ stdout' = Append(stdout, Json(Err("Script execution failed", exc)))
    /\ exitCode' = "1"
    /\ pc' = "exit"
    /\ UNCHANGED <<installed, args, dirEntries, generator, loads, calls, queue,
                   results, result, exc, madeDirs, saved>>

IdleEmbed ==
    /\ pilInstalled = TRUE /\ openclip = FALSE /\ argv = <<>> /\ epc = "idle"
    /\ fallback = "unset" /\ rng = [key |-> 0, pos |-> 0] /\ eresult = NoResult /\ elog = <<>>
    /\ estdout = <<>> /\ eexit = "running"

IdleNorm == raw = <<>> /\ norm = <<>>

otherThanDepth == <<embedVars, normVars>>

NextDepth ==
    \/ Construct /\ UNCHANGED otherThanDepth
    \/ Single /\ UNCHANGED otherThanDepth
    \/ BatchStart /\ UNCHANGED otherThanDepth
    \/ BatchStep /\ UNCHANGED otherThanDepth
    \/ BatchFinish /\ UNCHANGED otherThanDepth
    \/ FallbackBatch /\ UNCHANGED otherThanDepth
    \/ FallbackSingle /\ UNCHANGED otherThanDepth
    \/ PrintResult /\ UNCHANGED otherThanDepth
    \/ MainExcept /\ UNCHANGED otherThanDepth

DepthToolInit == InitDepth /\ IdleEmbed /\ IdleNorm

SpecDepth == DepthToolInit /\ [][NextDepth]_vars

(***************************************************************************)
(* Embedding tool: openclip_embeddings.py                                  *)
(*                                                                         *)
(* A command-line argument is described by what the code can observe of    *)
(* it: what the string starts with, whether it holds a comma, what         *)
(* base64.b64decode + Image.open make of its payload, and what             *)
(* Image.open makes of it when it is taken as a path.                      *)
(***************************************************************************)
ImageContents == {"imgA", "imgB"}

Arg(head, comma, b64, file) ==
    [head |-> head, comma |-> comma, b64 |-> b64, file |-> file]

DataUrls ==
    {Arg("data:image", TRUE, b, "missing") : b \in ImageContents \cup {"raises", "junk"}}
        \cup {Arg("data:image", FALSE, "raises", "missing")}
AbsPaths == {Arg("/", FALSE, "raises", f) : f \in ImageContents \cup {"missing", "junk"}}
DotPaths == {Arg("./", FALSE, "raises", f) : f \in ImageContents \cup {"missing"}}
\* a plain relative name such as chart.png: no base64 of an image
PlainNames ==
    {Arg("", FALSE, b, f) : b \in {"raises", "junk"}, f \in ImageContents \cup {"missing"}}
RawBase64 == {Arg("", FALSE, b, "missing") : b \in ImageContents}
EmbedArgs == DataUrls \cup AbsPaths \cup DotPaths \cup PlainNames \cup RawBase64

\* the embedding dimension written in generate_embedding
EmbDim == 1024
\* the feature width of ViT-H-14
ModelDim == 1024

\* hashlib.md5(pixels).hexdigest()[:8] as an integer, per image content
Md5Prefix(content) == IF content = "imgA" THEN 11 ELSE 6

\* np.random.seed(s)
NpSeed(s) == [key |-> s, pos |-> 0]
\* the i-th variate the generator yields after state g
Variate(g, i) == ((g.key * 7 + (g.pos + i) * (g.key + 3)) % 13) - 6
\* np.random.normal(0, 1, n)
NpNormal(g, n) == [i \in 1..n |-> Variate(g, i)]
NpAdvance(g, n) == [key |-> g.key, pos |-> g.pos + n]

RECURSIVE SumSq(_, _, _)
SumSq(v, lo, hi) ==
    IF lo > hi THEN 0
    ELSE IF lo = hi THEN v[lo] * v[lo]
    ELSE LET mid == (lo + hi) \div 2 IN SumSq(v, lo, mid) + SumSq(v, mid + 1, hi)

\* v / ||v||: each element kept as <<numerator, squared norm>>
L2Normalize(v) == LET n2 == SumSq(v, 1, Len(v)) IN [i \in 1..Len(v) |-> <<v[i], n2>>]

\* model.encode_image on the preprocessed image: a fixed function of the image
EncodeImage(content) == [i \in 1..ModelDim |-> ((Md5Prefix(content) + i * i) % 9) - 4]

\* generate_embedding lines 60-71: the content of the decoded image, or "raise"
LoadImage(a) ==
    IF a.head = "data:image"
    THEN IF ~a.comma THEN "raise"
         ELSE IF a.b64 \in ImageContents THEN a.b64 ELSE "raise"
    ELSE IF a.head = "/" \/ a.head = "./"
    THEN IF a.file \in ImageContents THEN a.file ELSE "raise"
    ELSE IF a.b64 \in ImageContents THEN a.b64 ELSE "raise"

\* a slip: the fallback draws from the generator without reseeding it
FallbackEmbeddingNoSeed(content, g) ==
    [res |-> [embedding |-> L2Normalize(NpNormal(g, EmbDim)),
              dimensions |-> EmbDim,
              model |-> "Fallback 1024D"],
     rng |-> NpAdvance(g, EmbDim)]

\* generate_embedding lines 92-108
FallbackEmbedding(content, g) ==
    LET seeded == NpSeed(Md5Prefix(content)) IN
    [res |-> [embedding |-> L2Normalize(NpNormal(seeded, EmbDim)),
              dimensions |-> EmbDim,
              model |-> "Fallback 1024D"],
     rng |-> NpAdvance(seeded, EmbDim)]

\* OpenCLIPEmbedder.generate_embedding(arg); fb: self.fallback; g: generator
\* state; ok: preprocessing and the forward pass raise nothing
GenerateEmbedding(a, fb, g, ok) ==
    LET content == LoadImage(a) IN
    IF content = "raise"
    THEN [res |-> Err("Failed to generate embedding", "decode"),
          rng |-> g, content |-> "none"]
    ELSE IF fb # "True"
    THEN IF ~ok
         THEN [res |-> Err("Failed to generate embedding", "inference"),
               rng |-> g, content |-> content]
         ELSE LET embedding == L2Normalize(EncodeImage(content)) IN
              [res |-> [embedding |-> embedding,
                        dimensions |-> Len(embedding),
                        model |-> "OpenCLIP ViT-H/14"],
               rng |-> g, content |-> content]
    ELSE LET f == FallbackEmbedding(content, g) IN
         [res |-> f.res, rng |-> f.rng, content |-> content]

MaxArgs == 2
MaxCalls == 3
MaxSeed == 1

\* states the process-wide generator may be in before a call
RngStates == {[key |-> k, pos |-> k] : k \in 0..MaxSeed}

RECURSIVE SeqsUpTo(_, _)
SeqsUpTo(S, n) ==
    IF n = 0 THEN {<<>>}
    ELSE LET shorter == SeqsUpTo(S, n - 1) IN
         shorter \cup {Append(s, x) : s \in shorter, x \in S}

InitEmbedCli ==
    /\ pilInstalled \in BOOLEAN /\ openclip \in BOOLEAN
    /\ argv \in SeqsUpTo(EmbedArgs, MaxArgs)
    /\ epc = "import" /\ fallback = "unset" /\ rng \in RngStates
    /\ eresult = NoResult /\ elog = <<>> /\ estdout = <<>> /\ eexit = "running"

\* module lines 13-25
ImportModule ==
    /\ epc = "import"
    /\ IF ~pilInstalled
       THEN /\ estdout' = Append(estdout, Json(Err("PIL/Pillow not installed", "import")))
            /\ eexit' = "1" /\ epc' = "exit"
       ELSE /\ epc' = "main" /\ UNCHANGED <<estdout, eexit>>
    /\ UNCHANGED <<pilInstalled, openclip, argv, fallback, rng, eresult, elog>>

\* main lines 115-117
CheckArgs ==
    /\ epc = "main"
    /\ IF Len(argv) + 1 # 2
       THEN /\ estdout' = Append(estdout, Json(Err("Usage", "usage")))
            /\ eexit' = "1" /\ epc' = "exit"
       ELSE /\ epc' = "construct" /\ UNCHANGED <<estdout, eexit>>
    /\ UNCHANGED <<pilInstalled, openclip, argv, fallback, rng, eresult, elog>>

\* main line 119 with OpenCLIPEmbedder.__init__
ConstructEmbedder ==
    /\ epc = "construct"
    /\ IF openclip
       THEN \E loaded \in BOOLEAN :
              IF loaded
              THEN /\ fallback' = "False" /\ epc' = "generate"
                   /\ UNCHANGED <<estdout, eexit>>
              ELSE /\ estdout' = Append(estdout,
                                    Json(Err("Failed to load OpenCLIP model", "load")))
                   /\ eexit' = "1" /\ epc' = "exit"
                   /\ UNCHANGED fallback
       ELSE /\ fallback' = "True" /\ epc' = "generate"
            /\ UNCHANGED <<estdout, eexit>>
    /\ UNCHANGED <<pilInstalled, openclip, argv, rng, eresult, elog>>

\* main line 120
CallGenerate ==
    /\ epc = "generate"
    /\ \E ok \in BOOLEAN :
         LET r == GenerateEmbedding(argv[1], fallback, rng, ok) IN
           /\ eresult' = r.res
           /\ rng' = r.rng
           /\ elog' = Append(elog, [content |-> r.content, result |-> r.res])
    /\ epc' = "print"
    /\ UNCHANGED <<pilInstalled, openclip, argv, fallback, estdout, eexit>>

\* a slip: an error result ends the process with status 1
PrintEmbeddingFailsOnError ==
    /\ epc = "print"
    /\ estdout' = Append(estdout, Json(eresult))
    /\ eexit' = IF IsError(eresult) THEN "1" ELSE "0"
    /\ epc' = "exit"
    /\ UNCHANGED <<pilInstalled, openclip, argv, fallback, rng, eresult, elog>>

\* main line 121, then the process ends normally
PrintEmbedding ==
    /\ epc = "print"
    /\ estdout' = Append(estdout, Json(eresult))
    /\ eexit' = "0"
    /\ epc' = "exit"
    /\ UNCHANGED <<pilInstalled, openclip, argv, fallback, rng, eresult, elog>>

otherThanEmbed == <<depthVars, normVars>>

NextEmbedCli ==
    \/ ImportModule /\ UNCHANGED otherThanEmbed
    \/ CheckArgs /\ UNCHANGED otherThanEmbed
    \/ ConstructEmbedder /\ UNCHANGED otherThanEmbed
    \/ CallGenerate /\ UNCHANGED otherThanEmbed
    \/ PrintEmbedding /\ UNCHANGED otherThanEmbed

EmbedCliInit == InitEmbedCli /\ IdleDepth /\ IdleNorm

SpecEmbedCli == EmbedCliInit /\ [][NextEmbedCli]_vars

(***************************************************************************)
(* One OpenCLIPEmbedder instance serving a sequence of generate_embedding  *)
(* calls; the process-wide generator starts in any state.                  *)
(***************************************************************************)
InitEmbedder ==
    /\ pilInstalled = TRUE /\ openclip \in BOOLEAN
    /\ fallback = IF openclip THEN "False" ELSE "True"
    /\ argv = <<>> /\ epc = "serving" /\ rng \in RngStates
    /\ eresult = NoResult /\ elog = <<>> /\ estdout = <<>> /\ eexit = "running"

\* embedder.generate_embedding(a), called by a long-lived owner of the instance
GenerateEmbeddingCall ==
    /\ epc = "serving" /\ Len(elog) < MaxCalls
    /\ \E a \in EmbedArgs, ok \in BOOLEAN :
         LET r == GenerateEmbedding(a, fallback, rng, ok) IN
           /\ eresult' = r.res
           /\ rng' = r.rng
           /\ elog' = Append(elog, [content |-> r.content, result |-> r.res])
    /\ UNCHANGED <<pilInstalled, openclip, argv, epc, fallback, estdout, eexit>>

NextEmbedder ==
    \/ GenerateEmbeddingCall /\ UNCHANGED otherThanEmbed

EmbedderInit == InitEmbedder /\ IdleDepth /\ IdleNorm

SpecEmbedder == EmbedderInit /\ [][NextEmbedder]_vars

(***************************************************************************)
(* The normalisation step of generate_depth_map on its own, over every     *)
(* raster of bounded size and value range.                                 *)
(***************************************************************************)
MaxPixels == 3
RawSpan == 5
RawOffset == 2
RawValues == {v - RawOffset : v \in 0..RawSpan}

InitNorm ==
    /\ raw \in SeqsUpTo(RawValues, MaxPixels) \ {<<>>}
    /\ norm = <<>>

\* generate_depth_map lines 84-93
NormalizeStep ==
    /\ norm = <<>>
    /\ norm' = DepthUint8(raw)
    /\ UNCHANGED raw

NextNorm ==
    \/ NormalizeStep /\ UNCHANGED <<depthVars, embedVars>>

NormInit == InitNorm /\ IdleDepth /\ IdleEmbed

SpecNorm == NormInit /\ [][NextNorm]_vars

(***************************************************************************)
(* Properties of the depth tool                                            *)
(***************************************************************************)
\* the recognized extensions in the spellings that occur, written out
RecognizedSpellings ==
    {".png", ".PNG", ".Png", ".jpg", ".JPG", ".jpeg", ".JPEG", ".bmp", ".tiff", ".TIFF"}
RecognizedEntries == {e \in dirEntries : e.ext \in RecognizedSpellings}
RealMode == DEPENDENCIES_AVAILABLE
BatchOverImgs == args.batch /\ PathOf(args.input) = Imgs
Reported == pc \in {"print", "exit"} /\ result # NoResult
SuccessIndexes(rs) == {i \in DOMAIN rs : "success" \in DOMAIN rs[i].result}
FailureIndexes(rs) == {i \in DOMAIN rs : "error" \in DOMAIN rs[i].result}

\* C1: a batch over a directory with N >= 1 recognized image files and M other
\* files reports exactly one entry per recognized file and none for the others,
\* total_processed = N, and success_count = the number of successful entries.
C1_BatchCounts ==
    (RealMode /\ BatchOverImgs /\ Reported /\ RecognizedEntries # {}) =>
        /\ "batch_results" \in DOMAIN result
        /\ Len(result.batch_results) = Cardinality(RecognizedEntries)
        /\ {result.batch_results[i].file : i \in DOMAIN result.batch_results}
               = RecognizedEntries
        /\ result.total_processed = Cardinality(RecognizedEntries)
        /\ result.success_count = Cardinality(SuccessIndexes(result.batch_results))
        /\ SuccessIndexes(result.batch_results) \cup FailureIndexes(result.batch_results)
               = DOMAIN result.batch_results

\* C1 witness: a finished batch over recognized and unrecognized files, among
\* them an upper-case extension, with both a success and a failure reported.
C1_Witness ==
    /\ RealMode /\ BatchOverImgs /\ pc = "exit" /\ result # NoResult
    /\ "batch_results" \in DOMAIN result
    /\ Name("b", ".PNG") \in dirEntries
    /\ dirEntries \ RecognizedEntries # {}
    /\ SuccessIndexes(result.batch_results) # {}
    /\ FailureIndexes(result.batch_results) # {}

\* C2: single mode with the model loaded, a decodable input, a successful model
\* pass and the output given as the bare file name depth.png ends with a
\* success result and a file at exactly that path.
C2_BareOutputWritten ==
    (/\ RealMode /\ ~args.batch /\ Reported
     /\ args.input = Chart /\ args.output = <<Name("depth", ".png")>>
     /\ ~(IsError(result) /\ result.cause = "model")) =>
        /\ IsSuccess(result)
        /\ args.output \in DOMAIN saved

\* C4: when the depth tool has ended, standard output holds exactly one JSON
\* document and nothing else.
C4_StdoutOneJson ==
    pc = "exit" => (Len(stdout) = 1 /\ stdout[1].kind = "json")

\* C5: in fallback mode the real model is never constructed and every
\* invocation whose source image decodes ends with a success result.  Stated
\* for the single-image command line of the spec's example (--input chart.png
\* --output depth.png) with the fallback's own imports (cv2, PIL) present.
C5_FallbackSucceeds ==
    ~DEPENDENCIES_AVAILABLE =>
        /\ loads = 0 /\ generator = "none"
        /\ (/\ Reported /\ ~args.batch /\ {"cv2", "PIL"} \subseteq installed
            /\ args.input = Chart /\ args.output = <<Name("depth", ".png")>>) =>
              IsSuccess(result)

\* C6: process_batch on a missing path, or on a directory without recognized
\* image files, returns an error object, raises nothing, never calls the
\* single-image operation and creates no directory and no file.
C6_BatchInputError ==
    (/\ RealMode /\ args.batch /\ pc \in {"batch", "print", "raised", "exit"}
     /\ generator = "loaded"
     /\ \/ PathOf(args.input) \notin InitDirs \cup InitFiles
        \/ PathOf(args.input) = Imgs /\ RecognizedEntries = {}) =>
        /\ pc \in {"print", "exit"}
        /\ IsError(result) /\ exc = None
        /\ calls = <<>> /\ madeDirs = {} /\ saved = <<>>

\* C6 witness: process_batch has returned for a directory that holds files,
\* none of them with a recognized extension, and no output was given.
C6_Witness ==
    /\ RealMode /\ BatchOverImgs /\ pc = "print"
    /\ dirEntries # {} /\ RecognizedEntries = {}
    /\ args.output = NoOutput

\* C10: with the dependencies available the model is initialized once, before
\* any image is processed; a failed initialization processes no image, writes
\* no file, prints an error object and exits non-zero; a failure on one image
\* is reported in that image's result, the remaining images are still
\* processed and the exit status stays 0.
C10_ModelLifecycle ==
    RealMode =>
        /\ loads <= 1
        /\ calls # <<>> => (loads = 1 /\ generator = "loaded")
        /\ (loads = 1 /\ generator = "none") =>
              /\ calls = <<>> /\ saved = <<>> /\ madeDirs = {}
              /\ pc \in {"raised", "exit"}
              /\ pc = "exit" =>
                    /\ exitCode = "1"
                    /\ IsError(stdout[Len(stdout)].doc)
        /\ (pc = "batch" /\ BatchOverImgs) =>
              Len(results) + Len(queue) = Cardinality(RecognizedEntries)
        /\ (pc = "exit" /\ generator = "loaded" /\ exc = None) =>
              /\ exitCode = "0"
              /\ stdout[Len(stdout)] = Json(result)
              /\ "batch_results" \in DOMAIN result =>
                    Len(result.batch_results) = Len(calls)

\* C10 witness: a batch ended with exit status 0 in which the first image
\* failed and a later one succeeded, all under the one loaded model.
C10_Witness ==
    /\ RealMode /\ pc = "exit" /\ exitCode = "0" /\ loads = 1
    /\ result # NoResult /\ "batch_results" \in DOMAIN result
    /\ Len(result.batch_results) >= 2
    /\ IsError(result.batch_results[1].result)
    /\ IsSuccess(result.batch_results[2].result)

(***************************************************************************)
(* Properties of the embedding tool                                        *)
(***************************************************************************)
Constructed == fallback # "unset"
OneArg == Len(argv) = 1
EmbeddingOk(r) ==
    /\ "embedding" \in DOMAIN r
    /\ r.dimensions = 1024
    /\ Len(r.embedding) = 1024

\* C3: given one argument that is the path of an existing valid image file,
\* absolute, "./"-prefixed or a plain relative name, the tool prints a result
\* with dimensions 1024 and an embedding of length 1024, not an error object
\* (a run whose forward pass itself fails is left aside).
C3_PathYieldsEmbedding ==
    (/\ epc = "exit" /\ Constructed /\ OneArg
     /\ argv[1].head \in {"/", "./", ""}
     /\ argv[1].file \in ImageContents
     /\ ~(IsError(eresult) /\ eresult.cause = "inference")) =>
        /\ EmbeddingOk(eresult)
        /\ estdout = <<Json(eresult)>>

\* a malformed base64 payload or a path to no file
BadInput(a) ==
    \/ a.head \in {"/", "./"} /\ a.file = "missing"
    \/ a.head = "data:image" /\ a.b64 = "raises"
    \/ a.head = "" /\ a.b64 = "raises" /\ a.file = "missing"

\* C7: with one argument that is a malformed base64 payload or a path to no
\* file, generate_embedding returns an error object, main prints it as the only
\* output and the exit status is 0; the exit status is non-zero only when the
\* argument count is wrong, the image library is missing or the model fails
\* to load.
C7_BadInputExitsCleanly ==
    /\ (epc \in {"print", "exit"} /\ Constructed /\ OneArg /\ BadInput(argv[1])) =>
          /\ IsError(eresult)
          /\ elog = <<[content |-> "none", result |-> eresult]>>
          /\ epc = "exit" => (estdout = <<Json(eresult)>> /\ eexit = "0")
    /\ eexit # "0" /\ epc = "exit" =>
          \/ ~OneArg
          \/ ~pilInstalled
          \/ openclip /\ ~Constructed

\* C7 witness: the real model is loaded, the one argument is malformed base64,
\* and the process has ended with status 0 after printing the error object.
C7_Witness ==
    /\ epc = "exit" /\ OneArg /\ fallback = "False"
    /\ argv[1] = Arg("", FALSE, "raises", "missing")
    /\ IsError(eresult) /\ eexit = "0" /\ estdout = <<Json(eresult)>>

\* C8: in fallback mode any two calls on one embedder that decode to the same
\* image content return the same vector, whatever was embedded before or
\* between them and whatever state the process-wide generator was in.
C8_FallbackDeterministic ==
    fallback = "True" =>
        \A i, j \in DOMAIN elog :
            (elog[i].content = elog[j].content /\ elog[i].content \in ImageContents) =>
                /\ "embedding" \in DOMAIN elog[i].result
                /\ elog[i].result = elog[j].result

\* C8 witness: three fallback calls, the first and third on the same image
\* with another image embedded between them.
C8_Witness ==
    /\ fallback = "True" /\ Len(elog) = 3
    /\ elog[1].content = "imgA" /\ elog[2].content = "imgB" /\ elog[3].content = "imgA"
    /\ "embedding" \in DOMAIN elog[3].result

(***************************************************************************)
(* Properties of the normalisation step                                    *)
(***************************************************************************)
IsMin(d, i) == \A j \in DOMAIN d : d[i] <= d[j]
IsMax(d, i) == \A j \in DOMAIN d : d[i] >= d[j]
Constant(d) == \A i, j \in DOMAIN d : d[i] = d[j]

\* C9: every normalised pixel lies in 0..255; when the raw raster is not
\* constant its minimum maps to 0 and its maximum to 255; when it is constant
\* every pixel is 0 (and the step divides by nothing).
C9_NormalizedRange ==
    norm # <<>> =>
        /\ Len(norm) = Len(raw)
        /\ \A i \in DOMAIN norm :
              /\ norm[i] \in 0..255
              /\ ~Constant(raw) /\ IsMin(raw, i) => norm[i] = 0
              /\ ~Constant(raw) /\ IsMax(raw, i) => norm[i] = 255
              /\ Constant(raw) => norm[i] = 0

\* C9 witness: a constant non-zero raster of several pixels has been normalised.
C9_Witness ==
    /\ norm # <<>> /\ Len(raw) >= 2 /\ Constant(raw) /\ raw[1] # 0

====
